---- MODULE Spec2Model ----
(***************************************************************************)
(* Model of the coder_agent response-interpretation pipelines:             *)
(*   navigator_agent.py  _extract_json_block, plan_code_generation         *)
(*   search_agent.py     find_function_exemplars                           *)
(*   doc_agent.py        generate_documentation                            *)
(*                                                                         *)
(* Text is a sequence of symbols.  The symbols "{" "}" "[" "]" ":" ","     *)
(* " " and "\n" are the characters of that name, Tick is the backquote      *)
(* character of a markdown fence, and any other symbol is one lexical unit *)
(* that contains none of them (a letter or word of prose, a quoted JSON    *)
(* string literal, a number literal, the literal null).                    *)
(***************************************************************************)
EXTENDS Integers, Sequences, FiniteSets, TLC

\* ------------------------------------------------------------------ bounds
MaxLen == 6
MaxSections == 5
MaxCount == 4

\* ------------------------------------------------------------ text helpers
Whitespace == {" ", "\n"}

\* the backquote character
Tick == "'"

\* str.strip(): drop leading and trailing whitespace
RECURSIVE LStrip(_)
LStrip(s) ==
    IF s # <<>> /\ Head(s) \in Whitespace THEN LStrip(Tail(s)) ELSE s

RECURSIVE RStrip(_)
RStrip(s) ==
    IF s # <<>> /\ s[Len(s)] \in Whitespace
    THEN RStrip(SubSeq(s, 1, Len(s) - 1)) ELSE s

Strip(s) == RStrip(LStrip(s))

\* str.find(ch) and str.rfind(ch), 0-based, -1 when absent
RECURSIVE FindFrom(_, _, _)
FindFrom(s, ch, i) ==
    IF i > Len(s) THEN -1
    ELSE IF s[i] = ch THEN i - 1
    ELSE FindFrom(s, ch, i + 1)

Find(s, ch) == FindFrom(s, ch, 1)

RECURSIVE RFindFrom(_, _, _)
RFindFrom(s, ch, i) ==
    IF i < 1 THEN -1
    ELSE IF s[i] = ch THEN i - 1
    ELSE RFindFrom(s, ch, i - 1)

RFind(s, ch) == RFindFrom(s, ch, Len(s))

\* s[a:b] for 0 <= a (Python slice, clamped at the end of s)
Slice(s, a, b) == SubSeq(s, a + 1, IF b > Len(s) THEN Len(s) ELSE b)

\* text.startswith(three backquotes)
StartsWithFence(s) ==
    Len(s) >= 3 /\ s[1] = Tick /\ s[2] = Tick /\ s[3] = Tick

\* while text.endswith(backquote): text = text[:-1]
RECURSIVE StripBackticks(_)
StripBackticks(s) ==
    IF s # <<>> /\ s[Len(s)] = Tick
    THEN StripBackticks(SubSeq(s, 1, Len(s) - 1)) ELSE s

\* the fence branch without the removal of the trailing backquotes
UnfenceKeepingTicks(text) ==
    LET first_newline == Find(text, "\n")
        body == IF first_newline # -1
                THEN Slice(text, first_newline + 1, Len(text))
                ELSE text
    IN Strip(body)

\* the fence branch of _extract_json_block (lines 20-28)
Unfence(text) ==
    LET first_newline == Find(text, "\n")
        body == IF first_newline # -1
                THEN Slice(text, first_newline + 1, Len(text))
                ELSE text
    IN Strip(StripBackticks(body))

_extract_json_block(raw) ==
    IF raw = <<>> THEN <<>>
    ELSE LET t0 == Strip(raw)
             text == IF StartsWithFence(t0) THEN Unfence(t0) ELSE t0
             start == Find(text, "{")
             end == RFind(text, "}")
         IN IF start # -1 /\ end # -1 /\ end > start
            THEN Slice(text, start, end + 1)
            ELSE text

\* ------------------------------------------------------------- JSON values
\* Python values are tagged records; a str, int or None carries its symbol.
Str(x) == [t |-> "str", v |-> x]
Num(x) == [t |-> "num", v |-> x]
PyNone == [t |-> "none", v |-> "null"]
List(xs) == [t |-> "list", v |-> xs]
Dict(f) == [t |-> "dict", v |-> f]

\* isinstance(x, dict), isinstance(x, list)
IsDict(x) == x.t = "dict"
IsList(x) == x.t = "list"

EmptyMap == [k \in {} |-> PyNone]

\* d[key] = val (a repeated key keeps the last value)
Put(d, key, val) ==
    [k \in DOMAIN d \cup {key} |-> IF k = key THEN val ELSE d[k]]

\* d.get(key): None when the key is absent
Get(d, key) == IF key \in DOMAIN d THEN d[key] ELSE PyNone

\* the symbols that are quoted JSON string literals / number literals
StringLits ==
    {"components", "search_queries", "name", "description", "priority",
     "readme", "api_docs", "inline_docs", "usage_examples",
     "installation_instructions", "txt", "parser", "cli", ""}
NumberLits == {"1", "2"}

\* json.loads, by recursive descent; a parse is [ok, val, pos] with pos the
\* 1-based position after the value
ParseFail == [ok |-> FALSE, val |-> PyNone, pos |-> 0]
ParseOk(val, pos) == [ok |-> TRUE, val |-> val, pos |-> pos]

RECURSIVE SkipWs(_, _)
SkipWs(s, i) ==
    IF i <= Len(s) /\ s[i] \in Whitespace THEN SkipWs(s, i + 1) ELSE i

RECURSIVE ParseValue(_, _)
RECURSIVE ParseMembers(_, _, _)
RECURSIVE ParseElements(_, _, _)

\* members of an object after "{" or ",": key ":" value, then "," or "}"
ParseMembers(s, i, acc) ==
    LET j == SkipWs(s, i) IN
    IF j > Len(s) \/ s[j] \notin StringLits THEN ParseFail
    ELSE LET k == SkipWs(s, j + 1) IN
         IF k > Len(s) \/ s[k] # ":" THEN ParseFail
         ELSE LET v == ParseValue(s, k + 1) IN
              IF ~v.ok THEN ParseFail
              ELSE LET m == SkipWs(s, v.pos)
                       acc2 == Put(acc, s[j], v.val)
                   IN IF m > Len(s) THEN ParseFail
                      ELSE IF s[m] = "}" THEN ParseOk(Dict(acc2), m + 1)
                      ELSE IF s[m] = "," THEN ParseMembers(s, m + 1, acc2)
                      ELSE ParseFail

\* elements of an array after "[" or ",": value, then "," or "]"
ParseElements(s, i, acc) ==
    LET v == ParseValue(s, i) IN
    IF ~v.ok THEN ParseFail
    ELSE LET m == SkipWs(s, v.pos)
             acc2 == Append(acc, v.val)
         IN IF m > Len(s) THEN ParseFail
            ELSE IF s[m] = "]" THEN ParseOk(List(acc2), m + 1)
            ELSE IF s[m] = "," THEN ParseElements(s, m + 1, acc2)
            ELSE ParseFail

ParseValue(s, i) ==
    LET j == SkipWs(s, i) IN
    IF j > Len(s) THEN ParseFail
    ELSE IF s[j] = "{"
         THEN LET k == SkipWs(s, j + 1) IN
              IF k <= Len(s) /\ s[k] = "}"
              THEN ParseOk(Dict(EmptyMap), k + 1)
              ELSE ParseMembers(s, j + 1, EmptyMap)
    ELSE IF s[j] = "["
         THEN LET k == SkipWs(s, j + 1) IN
              IF k <= Len(s) /\ s[k] = "]"
              THEN ParseOk(List(<<>>), k + 1)
              ELSE ParseElements(s, j + 1, <<>>)
    ELSE IF s[j] \in StringLits THEN ParseOk(Str(s[j]), j + 1)
    ELSE IF s[j] \in NumberLits THEN ParseOk(Num(s[j]), j + 1)
    ELSE IF s[j] = "null" THEN ParseOk(PyNone, j + 1)
    ELSE ParseFail

\* json.loads(s): one value, nothing but whitespace after it; ok = FALSE
\* stands for the JSONDecodeError
json_loads(s) ==
    LET v == ParseValue(s, 1) IN
    IF v.ok /\ SkipWs(s, v.pos) > Len(s) THEN v ELSE ParseFail

\* ------------------------------------------------------------ plan pipeline
\* a default plan whose search_queries are not seeded with the requirement
DefaultPlanNoQuery(requirements) ==
    [components |->
        << Dict([name |-> Str("main_module"),
                 description |-> Str(requirements),
                 priority |-> Num("1")]) >>,
     search_queries |-> <<>>]

\* the default safe plan (navigator_agent.py lines 66-75)
DefaultPlan(requirements) ==
    [components |->
        << Dict([name |-> Str("main_module"),
                 description |-> Str(requirements),
                 priority |-> Num("1")]) >>,
     search_queries |-> << Str(requirements) >>]

\* isinstance(x, list), without the emptiness test
AnyList(x) == IsList(x)

\* isinstance(x, list) and x
NonEmptyList(x) == IsList(x) /\ x.v # <<>>

\* lines 77-98: the plan returned for the text raw (raw = call_llm(..) or "",
\* or "" after an exception); a failed parse is caught and leaves the default
PlanFor(requirements, raw) ==
    LET plan == DefaultPlan(requirements) IN
    IF raw = <<>> THEN plan
    ELSE LET parsed == json_loads(_extract_json_block(raw)) IN
         IF parsed.ok /\ IsDict(parsed.val)
         THEN LET components == Get(parsed.val.v, "components")
                  search_queries == Get(parsed.val.v, "search_queries")
              IN [components |->
                     IF NonEmptyList(components)
                     THEN components.v ELSE plan.components,
                  search_queries |->
                     IF NonEmptyList(search_queries)
                     THEN search_queries.v ELSE plan.search_queries]
         ELSE plan

\* --------------------------------------------------- documentation pipeline
BundleKeys ==
    {"readme", "api_docs", "inline_docs", "usage_examples",
     "installation_instructions"}

\* the all-empty bundle (doc_agent.py lines 108-114 and 130-136)
EmptyBundle == [k \in BundleKeys |-> Str("")]

\* the bundle when the block ends at the first "}" instead of the last
BundleForFirstClose(raw) ==
    LET start == Find(raw, "{")
        end == Find(raw, "}")
    IN IF start # -1 /\ end # -1
       THEN LET parsed == json_loads(Slice(raw, start, end + 1)) IN
            IF parsed.ok /\ IsDict(parsed.val)
            THEN parsed.val.v
            ELSE EmptyBundle
       ELSE EmptyBundle

\* lines 118-136: the bundle returned for the text raw
BundleFor(raw) ==
    LET start == Find(raw, "{")
        end == RFind(raw, "}")
    IN IF start # -1 /\ end # -1
       THEN LET parsed == json_loads(Slice(raw, start, end + 1)) IN
            IF parsed.ok /\ IsDict(parsed.val)
            THEN parsed.val.v
            ELSE EmptyBundle
       ELSE EmptyBundle

\* --------------------------------------------------------- exemplar selector
\* a Python int (a section index), as opposed to a numeral of JSON text
PyInt(i) == [t |-> "int", v |-> i]

\* the index chosen when the range test admits len(code_sections)
ChosenIndexInclusive(result, code_sections) ==
    IF ~IsDict(result) THEN 0
    ELSE LET idx == Get(result.v, "chosen_section_index") IN
         IF idx.t # "int" \/ ~(0 <= idx.v /\ idx.v <= Len(code_sections))
         THEN 0
         ELSE idx.v

\* lines 24-35: the index chosen from deep_search's result
ChosenIndex(result, code_sections) ==
    IF ~IsDict(result) THEN 0
    ELSE LET idx == Get(result.v, "chosen_section_index") IN
         IF idx.t # "int" \/ ~(0 <= idx.v /\ idx.v < Len(code_sections))
         THEN 0
         ELSE idx.v

\* lines 39-47
_build_exemplar(code_sections, section_idx) ==
    LET entry == code_sections[section_idx + 1] IN
    [index |-> section_idx,
     artifact_name |-> entry.artifact_name,
     document_name |-> entry.document_name,
     section_name |-> entry.section_name,
     description |-> entry.description]

\* a break that lets one exemplar too many through
MoreThanEnough(exemplars, max_exemplars) == Len(exemplars) > max_exemplars

\* len(exemplars) >= max_exemplars: the break of the neighbor loop
Enough(exemplars, max_exemplars) == Len(exemplars) >= max_exemplars

\* the offsets with the successor before the predecessor
OffsetsSuccessorFirst == <<1, -1, 2, -2>>

\* for offset in (-1, 1, -2, 2) (line 53)
Offsets == <<-1, 1, -2, 2>>

\* lines 53-58: the loop over the offsets still to visit
RECURSIVE AddNeighbors(_, _, _, _, _)
AddNeighbors(code_sections, idx, max_exemplars, offsets, exemplars) ==
    IF offsets = <<>> \/ Enough(exemplars, max_exemplars) THEN exemplars
    ELSE LET neighbor == idx + Head(offsets) IN
         AddNeighbors(code_sections, idx, max_exemplars, Tail(offsets),
            IF 0 <= neighbor /\ neighbor < Len(code_sections)
            THEN Append(exemplars, _build_exemplar(code_sections, neighbor))
            ELSE exemplars)

\* lines 37-60: the exemplars returned for the chosen index idx
ExemplarsFor(code_sections, idx, max_exemplars) ==
    AddNeighbors(code_sections, idx, max_exemplars, Offsets,
                 << _build_exemplar(code_sections, idx) >>)

\* ------------------------------------------------------------------- inputs
Requirements == {"", "build"}

CompList ==
    <<"[", "{", "name", ":", "parser", ",", "description", ":", "txt", ",",
      "priority", ":", "2", "}", "]">>
QueryList == <<"[", "cli", ",", "txt", "]">>
EmptyList == <<"[", "]">>
Obj1(k, v) == <<"{", k, ":">> \o v \o <<"}">>
Obj2(k1, v1, k2, v2) ==
    <<"{", k1, ":">> \o v1 \o <<",", " ", k2, ":">> \o v2 \o <<"}">>
Fenced(body) ==
    <<Tick, Tick, Tick, "json", "\n">> \o body \o <<"\n", Tick, Tick, Tick>>
InProse(body) == <<"Sure", ":", " ">> \o body \o <<" ", "Hope", "\n">>
BothFields == Obj2("components", CompList, "search_queries", QueryList)
FullBundle ==
    <<"{", "readme", ":", "txt", ",", "api_docs", ":", "txt", ",",
      "inline_docs", ":", "", ",", "usage_examples", ":", "txt", ",",
      "installation_instructions", ":", "txt", "}">>
PartBundle == Obj2("readme", <<"txt">>, "api_docs", <<"txt">>)

\* texts the text-generation collaborator may answer with
PlanTexts ==
    { <<>>, <<" ">>, <<"Sure">>, <<"}", " ", "{">>, <<"{", "}">>,
      BothFields, Fenced(BothFields), InProse(BothFields),
      <<Tick, Tick, Tick>> \o BothFields \o <<Tick, Tick, Tick>>,
      Obj2("components", CompList, "search_queries", EmptyList),
      Obj2("components", EmptyList, "search_queries", QueryList),
      Obj2("components", <<"txt">>, "search_queries", QueryList),
      Obj2("components", CompList, "search_queries", <<"null">>),
      Obj2("components", EmptyList, "search_queries", EmptyList),
      Obj1("components", CompList),
      Obj1("search_queries", QueryList),
      QueryList,
      <<"[">> \o BothFields \o <<"]">>,
      <<"{", "components", ":", "[", "}">>,
      <<"{", "components", ":">> \o CompList \o <<",", "}">>,
      BothFields \o <<" ", "and", " ">> \o BothFields }

DocTexts ==
    { FullBundle, PartBundle, Fenced(FullBundle), InProse(PartBundle),
      <<"[">> \o PartBundle \o <<"]">>, <<"[", "txt", "]">>,
      <<"{", "readme", ":">>, <<"readme", ":", "txt", "}">>,
      Obj1("readme", EmptyList),
      PartBundle \o <<" ", "and", " ">> \o PartBundle }

LlmTexts == PlanTexts \cup DocTexts

\* what call_llm returns: a str or None
LlmValues == {PyNone} \cup {[t |-> "text", v |-> x] : x \in LlmTexts}

SecA ==
    [artifact_name |-> "repo", document_name |-> "a.py",
     section_name |-> "parse", description |-> "txt"]
SecB ==
    [artifact_name |-> "repo", document_name |-> "b.py",
     section_name |-> "emit", description |-> "txt"]

RECURSIVE SeqsUpTo(_, _)
SeqsUpTo(S, n) ==
    IF n = 0 THEN {<<>>}
    ELSE LET shorter == SeqsUpTo(S, n - 1) IN
         shorter \cup {Append(x, e) : x \in shorter, e \in S}

SectionLists == SeqsUpTo({SecA, SecB}, MaxSections)
MaxCounts == (-1) .. MaxCount

\* what deep_search returns: anything; a dict may carry chosen_section_index
IndexValues ==
    {PyNone, Str("2")} \cup {PyInt(i) : i \in (-2) .. (MaxSections + 1)}
SearchValues ==
    {PyNone, List(<<>>), Dict(EmptyMap)}
    \cup {Dict(Put(EmptyMap, "chosen_section_index", x)) : x \in IndexValues}

Alphabet == {Tick, "\n", " ", "{", "}", "a"}
ExtractInputs == SeqsUpTo(Alphabet, MaxLen) \cup LlmTexts

\* -------------------------------------------------------------------- state
VARIABLES
    pc,             \* "idle", "llm", "search", "extract" or "done"
    op,             \* the entry point invoked
    requirements,   \* argument of the entry point
    code_sections,  \* argument of find_function_exemplars
    max_exemplars,  \* argument of find_function_exemplars
    reply,          \* what the collaborator did: pending, raise or a value
    raw,            \* the local raw (the argument of _extract_json_block)
    llm_calls,      \* calls of call_llm made by this invocation
    search_calls,   \* calls of deep_search made by this invocation
    outcome,        \* "pending", "returned" or "raised"
    result          \* the value returned

vars ==
    <<pc, op, requirements, code_sections, max_exemplars, reply, raw,
      llm_calls, search_calls, outcome, result>>

Pending == [kind |-> "pending", val |-> PyNone]
Raise == [kind |-> "raise", val |-> PyNone]
Value(x) == [kind |-> "value", val |-> x]

Init ==
    /\ pc = "idle"
    /\ op = "none"
    /\ requirements = ""
    /\ code_sections = <<>>
    /\ max_exemplars = 3
    /\ reply = Pending
    /\ raw = <<>>
    /\ llm_calls = 0
    /\ search_calls = 0
    /\ outcome = "pending"
    /\ result = <<>>

\* x or ""
OrEmpty(x) == IF x.t = "text" THEN x.v ELSE <<>>

\* plan_code_generation up to its call of call_llm (lines 42-58)
PlanInvoke ==
    /\ pc = "idle"
    /\ \E r \in Requirements : requirements' = r
    /\ op' = "plan"
    /\ pc' = "llm"
    /\ llm_calls' = llm_calls + 1
    /\ UNCHANGED <<code_sections, max_exemplars, reply, raw, search_calls,
                   outcome, result>>

\* call_llm returns: lines 58, 63-98
PlanLlmReturns ==
    /\ pc = "llm" /\ op = "plan"
    /\ \E x \in LlmValues :
          /\ reply' = Value(x)
          /\ raw' = OrEmpty(x)
          /\ result' = PlanFor(requirements, OrEmpty(x))
    /\ outcome' = "returned"
    /\ pc' = "done"
    /\ UNCHANGED <<op, requirements, code_sections, max_exemplars,
                   llm_calls, search_calls>>

\* call_llm raises: lines 59-61, then 63-78
PlanLlmRaises ==
    /\ pc = "llm" /\ op = "plan"
    /\ reply' = Raise
    /\ raw' = <<>>
    /\ result' = PlanFor(requirements, <<>>)
    /\ outcome' = "returned"
    /\ pc' = "done"
    /\ UNCHANGED <<op, requirements, code_sections, max_exemplars,
                   llm_calls, search_calls>>

\* generate_documentation up to its call of call_llm (lines 33-105)
DocInvoke ==
    /\ pc = "idle"
    /\ \E r \in Requirements : requirements' = r
    /\ op' = "doc"
    /\ pc' = "llm"
    /\ llm_calls' = llm_calls + 1
    /\ UNCHANGED <<code_sections, max_exemplars, reply, raw, search_calls,
                   outcome, result>>

\* call_llm returns: lines 105, 116-136
DocLlmReturns ==
    /\ pc = "llm" /\ op = "doc"
    /\ \E x \in LlmValues :
          /\ reply' = Value(x)
          /\ raw' = OrEmpty(x)
          /\ result' = BundleFor(OrEmpty(x))
    /\ outcome' = "returned"
    /\ pc' = "done"
    /\ UNCHANGED <<op, requirements, code_sections, max_exemplars,
                   llm_calls, search_calls>>

\* call_llm raises: lines 106-114
DocLlmRaises ==
    /\ pc = "llm" /\ op = "doc"
    /\ reply' = Raise
    /\ result' = EmptyBundle
    /\ outcome' = "returned"
    /\ pc' = "done"
    /\ UNCHANGED <<op, requirements, code_sections, max_exemplars, raw,
                   llm_calls, search_calls>>

\* the guard of line 20 left out
NeverNoSections(sections) == FALSE

\* not code_sections (search_agent.py line 20)
NoSections(sections) == sections = <<>>

\* find_function_exemplars up to its call of deep_search (lines 20-23)
ExemplarsInvoke ==
    /\ pc = "idle"
    /\ \E r \in Requirements : requirements' = r
    /\ \E cs \in SectionLists, m \in MaxCounts :
          /\ code_sections' = cs
          /\ max_exemplars' = m
          /\ IF NoSections(cs)
             THEN /\ result' = <<>>
                  /\ outcome' = "returned"
                  /\ pc' = "done"
                  /\ search_calls' = search_calls
             ELSE /\ search_calls' = search_calls + 1
                  /\ pc' = "search"
                  /\ UNCHANGED <<outcome, result>>
    /\ op' = "exemplars"
    /\ UNCHANGED <<reply, raw, llm_calls>>

\* deep_search returns: lines 24-60; an index outside code_sections is an
\* IndexError, which nothing catches
SearchReturns ==
    /\ pc = "search"
    /\ \E x \in SearchValues :
          /\ reply' = Value(x)
          /\ LET idx == ChosenIndex(x, code_sections) IN
             IF idx < Len(code_sections)
             THEN /\ result' = ExemplarsFor(code_sections, idx, max_exemplars)
                  /\ outcome' = "returned"
             ELSE /\ result' = <<>>
                  /\ outcome' = "raised"
    /\ pc' = "done"
    /\ UNCHANGED <<op, requirements, code_sections, max_exemplars, raw,
                   llm_calls, search_calls>>

\* deep_search raises: line 23 is in no try block
SearchRaises ==
    /\ pc = "search"
    /\ reply' = Raise
    /\ outcome' = "raised"
    /\ pc' = "done"
    /\ UNCHANGED <<op, requirements, code_sections, max_exemplars, raw,
                   llm_calls, search_calls, result>>

Next ==
    \/ PlanInvoke
    \/ PlanLlmReturns
    \/ PlanLlmRaises
    \/ DocInvoke
    \/ DocLlmReturns
    \/ DocLlmRaises
    \/ ExemplarsInvoke
    \/ SearchReturns
    \/ SearchRaises

Spec == Init /\ [][Next]_vars

\* ------------------------------------- the payload extractor on its own
InitExtract ==
    /\ pc = "extract"
    /\ op = "extract"
    /\ raw \in ExtractInputs
    /\ requirements = ""
    /\ code_sections = <<>>
    /\ max_exemplars = 3
    /\ reply = Pending
    /\ llm_calls = 0
    /\ search_calls = 0
    /\ outcome = "pending"
    /\ result = <<>>

\* _extract_json_block(raw)
ExtractBlock ==
    /\ pc = "extract"
    /\ result' = _extract_json_block(raw)
    /\ outcome' = "returned"
    /\ pc' = "done"
    /\ UNCHANGED <<op, requirements, code_sections, max_exemplars, reply,
                   raw, llm_calls, search_calls>>

NextExtract == ExtractBlock

SpecExtract == InitExtract /\ [][NextExtract]_vars

\* =================================================================== claims
Done(o) == pc = "done" /\ op = o
Returned(o) == Done(o) /\ outcome = "returned"
Max(a, b) == IF a >= b THEN a ELSE b
Min(a, b) == IF a <= b THEN a ELSE b

\* C1: no exception ever reaches the caller of plan_code_generation,
\* find_function_exemplars or generate_documentation: every finished
\* invocation has returned a value, whatever the collaborators did.
C1_Totality == pc = "done" => outcome = "returned"

\* C2: if call_llm returns the empty string or None, or raises,
\* plan_code_generation returns exactly the plan with the one component
\* main_module / requirement / priority 1 and search_queries = [requirement].
C2_DefaultFloor ==
    (Done("plan") /\ (\/ reply = Raise
                       \/ reply = Value(PyNone)
                       \/ reply = Value([t |-> "text", v |-> <<>>])))
    => /\ outcome = "returned"
       /\ result =
            [components |->
                << [t |-> "dict",
                    v |-> [name |-> [t |-> "str", v |-> "main_module"],
                           description |-> [t |-> "str", v |-> requirements],
                           priority |-> [t |-> "num", v |-> "1"]]] >>,
             search_queries |-> << [t |-> "str", v |-> requirements] >>]

C2_Witness ==
    /\ Returned("plan")
    /\ reply = Raise
    /\ requirements = "build"
    /\ result.search_queries = << Str("build") >>

\* C3: each of the two plan fields is the parsed value exactly when the
\* extracted block parses to a mapping whose value for that field is a
\* non-empty list, independently of the other field, and is the default
\* otherwise; so both fields of every returned plan are non-empty lists.
C3_FieldIs(f, dflt) ==
    LET p == json_loads(_extract_json_block(raw))
        good == /\ p.ok
                /\ p.val.t = "dict"
                /\ f \in DOMAIN p.val.v
                /\ p.val.v[f].t = "list"
                /\ Len(p.val.v[f].v) > 0
    IN /\ good => result[f] = p.val.v[f].v
       /\ ~good => result[f] = dflt
       /\ Len(result[f]) > 0

C3_PerFieldRepair ==
    Done("plan") =>
       /\ outcome = "returned"
       /\ DOMAIN result = {"components", "search_queries"}
       /\ C3_FieldIs("components",
             << Dict([name |-> Str("main_module"),
                      description |-> Str(requirements),
                      priority |-> Num("1")]) >>)
       /\ C3_FieldIs("search_queries", << Str(requirements) >>)

C3_Witness ==
    /\ Returned("plan")
    /\ requirements = "build"
    /\ raw = Obj2("components", CompList, "search_queries", EmptyList)
    /\ result.components =
          << Dict([name |-> Str("parser"), description |-> Str("txt"),
                   priority |-> Num("2")]) >>
    /\ result.search_queries = << Str("build") >>

\* C4: the value returned by generate_documentation has all five keys
\* readme, api_docs, inline_docs, usage_examples, installation_instructions.
C4_BundleComplete ==
    Returned("doc") =>
       {"readme", "api_docs", "inline_docs", "usage_examples",
        "installation_instructions"} \subseteq DOMAIN result

\* C5: generate_documentation returns the bundle of five empty strings
\* whenever call_llm raises, and whenever the text between the first "{" and
\* the last "}" of the response does not parse to a mapping (no braces, an
\* unparseable block, a parsed value that is no mapping).
C5_Has(t, ch) == \E i \in 1 .. Len(t) : t[i] = ch
C5_First(t, ch) ==
    CHOOSE i \in 1 .. Len(t) : t[i] = ch /\ \A j \in 1 .. (i - 1) : t[j] # ch
C5_Last(t, ch) ==
    CHOOSE i \in 1 .. Len(t) :
        t[i] = ch /\ \A j \in (i + 1) .. Len(t) : t[j] # ch

C5_ParsesToMapping(t) ==
    /\ C5_Has(t, "{")
    /\ C5_Has(t, "}")
    /\ LET p == json_loads(SubSeq(t, C5_First(t, "{"), C5_Last(t, "}")))
       IN p.ok /\ p.val.t = "dict"

C5_AllEmpty ==
    [readme |-> [t |-> "str", v |-> ""],
     api_docs |-> [t |-> "str", v |-> ""],
     inline_docs |-> [t |-> "str", v |-> ""],
     usage_examples |-> [t |-> "str", v |-> ""],
     installation_instructions |-> [t |-> "str", v |-> ""]]

C5_DocFallback ==
    Done("doc") =>
       /\ outcome = "returned"
       /\ (reply = Raise \/ ~C5_ParsesToMapping(raw)) => result = C5_AllEmpty

C5_Witness ==
    /\ Returned("doc")
    /\ reply.kind = "value"
    /\ C5_Has(raw, "{") /\ C5_Has(raw, "}")
    /\ ~C5_ParsesToMapping(raw)
    /\ result = C5_AllEmpty

\* the chosen_section_index carried by deep_search's result, when the result
\* is a mapping that carries an integer within [0, len(code_sections))
CarriesValidIndex ==
    /\ reply.kind = "value"
    /\ reply.val.t = "dict"
    /\ "chosen_section_index" \in DOMAIN reply.val.v
    /\ reply.val.v["chosen_section_index"].t = "int"
    /\ reply.val.v["chosen_section_index"].v >= 0
    /\ reply.val.v["chosen_section_index"].v < Len(code_sections)
CarriedIndex == reply.val.v["chosen_section_index"].v

ResultIndices == [i \in 1 .. Len(result) |-> result[i].index]

\* C6: for a non-empty section list of length n, a valid chosen index c and
\* maxCount >= 1, find_function_exemplars returns the first maxCount of c,
\* c-1, c+1, c-2, c+2 (in that order) that lie in [0, n), and each exemplar
\* is built from the section at its index.
C6_InRange(i) == 0 <= i /\ i < Len(code_sections)
C6_Expected(c) ==
    LET cands == SelectSeq(<<c, c - 1, c + 1, c - 2, c + 2>>, C6_InRange)
    IN SubSeq(cands, 1, Min(max_exemplars, Len(cands)))

C6_ExemplarOrder ==
    (Done("exemplars") /\ CarriesValidIndex /\ max_exemplars >= 1) =>
       /\ outcome = "returned"
       /\ ResultIndices = C6_Expected(CarriedIndex)
       /\ \A i \in 1 .. Len(result) :
             LET sec == code_sections[result[i].index + 1] IN
             /\ result[i].artifact_name = sec.artifact_name
             /\ result[i].document_name = sec.document_name
             /\ result[i].section_name = sec.section_name
             /\ result[i].description = sec.description

C6_Witness ==
    /\ Returned("exemplars")
    /\ Len(code_sections) = 5
    /\ CarriesValidIndex /\ CarriedIndex = 2
    /\ max_exemplars = 3
    /\ ResultIndices = <<2, 1, 3>>
    /\ result[2].section_name # result[3].section_name

\* C7: for a non-empty section list, a deep_search result that is no
\* mapping, lacks chosen_section_index or carries one that is no integer
\* within [0, len(sections)) makes the first exemplar the one of index 0; a
\* result carrying an integer within that range makes it the first index.
C7_ExemplarFallback ==
    (Done("exemplars") /\ reply.kind = "value") =>
       /\ outcome = "returned"
       /\ Len(result) >= 1
       /\ result[1].index = IF CarriesValidIndex THEN CarriedIndex ELSE 0

C7_Witness ==
    /\ Returned("exemplars")
    /\ Len(code_sections) = 3
    /\ reply = Value(Dict(Put(EmptyMap, "chosen_section_index", PyInt(3))))
    /\ max_exemplars = 3
    /\ ResultIndices = <<0, 1, 2>>

\* C8 as claimed: find_function_exemplars returns at most maxCount
\* exemplars, for every integer maxCount.
C8_CountBound == Returned("exemplars") => Len(result) <= max_exemplars

\* C8 as amended: at most maxCount exemplars when maxCount >= 1, and at most
\* one exemplar when maxCount < 1.
C8_CountBoundAmended ==
    Returned("exemplars") => Len(result) <= Max(max_exemplars, 1)

C8_Witness ==
    /\ Returned("exemplars")
    /\ Len(code_sections) = 5
    /\ CarriesValidIndex /\ CarriedIndex = 2
    /\ max_exemplars = 2
    /\ Len(result) = 2

\* C9 as claimed: _extract_json_block returns "" for an empty raw; otherwise,
\* with t the trimmed text (its first line and its trailing backquotes
\* removed, and trimmed again, when it begins with a fence), it returns t
\* from the first "{" to the last "}" when the last follows the first, and t
\* otherwise.
C9_Trimmed(s) ==
    LET keep == {i \in 1 .. Len(s) : s[i] \notin {" ", "\n"}} IN
    IF keep = {} THEN <<>>
    ELSE SubSeq(s, CHOOSE i \in keep : \A j \in keep : i <= j,
                   CHOOSE i \in keep : \A j \in keep : i >= j)

C9_NoTrailingTicks(s) ==
    LET keep == {i \in 1 .. Len(s) : s[i] # Tick} IN
    IF keep = {} THEN <<>>
    ELSE SubSeq(s, 1, CHOOSE i \in keep : \A j \in keep : i >= j)

C9_Fenced(t) == Len(t) >= 3 /\ SubSeq(t, 1, 3) = <<Tick, Tick, Tick>>

\* the text after the first line; a text of one line has nothing after it
C9_AfterFirstLine(t) ==
    IF C5_Has(t, "\n") THEN SubSeq(t, C5_First(t, "\n") + 1, Len(t)) ELSE <<>>

\* the same, but a text of one line is left as it is
C9_AfterFirstLineBreak(t) ==
    IF C5_Has(t, "\n") THEN SubSeq(t, C5_First(t, "\n") + 1, Len(t)) ELSE t

C9_Block(t) ==
    IF /\ C5_Has(t, "{")
       /\ C5_Has(t, "}")
       /\ C5_Last(t, "}") > C5_First(t, "{")
    THEN SubSeq(t, C5_First(t, "{"), C5_Last(t, "}"))
    ELSE t

C9_Extraction ==
    Done("extract") =>
       result =
          IF raw = <<>> THEN <<>>
          ELSE LET t == C9_Trimmed(raw) IN
               C9_Block(IF C9_Fenced(t)
                        THEN C9_Trimmed(C9_NoTrailingTicks(C9_AfterFirstLine(t)))
                        ELSE t)

\* C9 as amended: the first line of a fenced text is removed only when the
\* trimmed text has a line break; a fenced text of one line keeps its first
\* line and loses only its trailing backquotes.
C9_ExtractionAmended ==
    Done("extract") =>
       /\ result =
            IF raw = <<>> THEN <<>>
            ELSE LET t == C9_Trimmed(raw) IN
                 C9_Block(IF C9_Fenced(t)
                          THEN C9_Trimmed(C9_NoTrailingTicks(
                                             C9_AfterFirstLineBreak(t)))
                          ELSE t)
       /\ raw = Fenced(BothFields) => result = BothFields
       /\ raw = InProse(BothFields) => result = BothFields

C9_Witness ==
    /\ Done("extract")
    /\ raw = <<Tick, Tick, Tick, "\n", "{", "}">>
    /\ result = <<"{", "}">>

\* C10: plan_code_generation and generate_documentation each call call_llm
\* exactly once per invocation, whether it returns or raises;
\* find_function_exemplars calls deep_search at most once, and not at all for
\* an empty section list, for which it returns the empty sequence.
C10_SingleAttempt ==
    /\ (pc = "done" /\ op \in {"plan", "doc"}) =>
          llm_calls = 1 /\ search_calls = 0
    /\ op = "exemplars" =>
          /\ llm_calls = 0
          /\ search_calls <= 1
          /\ code_sections = <<>> =>
                /\ search_calls = 0
                /\ pc = "done" /\ outcome = "returned" /\ result = <<>>

C10_Witness ==
    /\ Returned("exemplars")
    /\ code_sections = <<>>
    /\ search_calls = 0
    /\ result = <<>>
====
